---- MODULE Spec2Model ----
(***************************************************************************)
(* Release scripts of the extensions repository (.github/scripts):         *)
(*   manage-release.py     resolves the tag of the release being built     *)
(*   update-versions.py    bumps extVersionCode / versionName on disk      *)
(*   generate-changelog.py renders the changelog of a commit range         *)
(*                                                                         *)
(* Text is modelled as a sequence of one-character strings, so that        *)
(* parsing (lstrip, split, int) and formatting (f-strings, str) are        *)
(* computed as the scripts compute them.  An absent value (Python None)    *)
(* and the empty string are both the empty sequence: every test the        *)
(* scripts make on such a value is a truthiness test.                      *)
(***************************************************************************)
EXTENDS Integers, Sequences, FiniteSets, TLC

VARIABLES
    currentTag,     \* git describe --exact-match --tags HEAD   (<<>>: HEAD on no tag)
    latestTag,      \* git describe --tags --abbrev=0           (<<>>: no tag at all)
    buildFiles,     \* src/**/build.gradle: per file, the numbers of its
                    \* "extVersionCode = N" occurrences, in text order
    commonGradle,   \* common.gradle: the versionName line it holds
    updateLog,      \* the update runs that wrote files so far: type and old counters
    argv,           \* the command run last and its arguments
    stdout,         \* what the last command printed to standard output
    stderr,         \* what the last command printed to standard error
    exitCode,       \* the exit status of the last command
    gitLog,         \* git log <since>..HEAD: the commits, in the order git lists them
    changelog,      \* the lines returned by generate_changelog
    resolvedTags    \* the tag each release of the pipeline resolved, oldest first
                    \* (<<>> for a release whose resolution failed)

vars == <<currentTag, latestTag, buildFiles, commonGradle, updateLog,
          argv, stdout, stderr, exitCode, gitLog, changelog, resolvedTags>>

releaseVars == <<currentTag, latestTag, buildFiles, commonGradle, updateLog,
                 argv, stdout, stderr, exitCode>>

changelogVars == <<gitLog, changelog>>

---------------------------------------------------------------------------
(* Bounds of the exploration *)

MaxFiles == 2        \* build.gradle files under src/
MaxUpdates == 2      \* update runs that write files, per behaviour
MaxCommits == 3      \* commits in the range the changelog is rendered from

---------------------------------------------------------------------------
(* Text helpers *)

None == <<>>

Digits == <<"0", "1", "2", "3", "4", "5", "6", "7", "8", "9">>

IsDigit(c) == \E i \in 1..10 : Digits[i] = c

DigitVal(c) == (CHOOSE i \in 1..10 : Digits[i] = c) - 1

RECURSIVE Lstrip(_, _)
Lstrip(s, c) ==
    IF s # <<>> /\ Head(s) = c THEN Lstrip(Tail(s), c) ELSE s

\* str.split(sep): always at least one part, empty parts kept
RECURSIVE SplitFrom(_, _, _)
SplitFrom(s, sep, cur) ==
    IF s = <<>> THEN <<cur>>
    ELSE IF Head(s) = sep THEN <<cur>> \o SplitFrom(Tail(s), sep, <<>>)
    ELSE SplitFrom(Tail(s), sep, Append(cur, Head(s)))

Split(s, sep) == SplitFrom(s, sep, <<>>)

\* int(s) over the characters the tags are drawn from: decimal digits only
IsInt(s) == s # <<>> /\ \A i \in 1..Len(s) : IsDigit(s[i])

RECURSIVE IntOf(_)
IntOf(s) ==
    IF s = <<>> THEN 0
    ELSE IntOf(SubSeq(s, 1, Len(s) - 1)) * 10 + DigitVal(s[Len(s)])

\* str(n), n >= 0
RECURSIVE StrOf(_)
StrOf(n) ==
    IF n < 10 THEN <<Digits[n + 1]>>
    ELSE StrOf(n \div 10) \o <<Digits[(n % 10) + 1]>>

RECURSIVE Join(_, _)
Join(parts, sep) ==
    IF parts = <<>> THEN <<>>
    ELSE IF Len(parts) = 1 THEN parts[1]
    ELSE parts[1] \o <<sep>> \o Join(Tail(parts), sep)

RECURSIVE MaxOf(_, _)
MaxOf(f, n) == \* max(0, f[1], ..., f[n])
    IF n = 0 THEN 0
    ELSE LET m == MaxOf(f, n - 1) IN IF f[n] > m THEN f[n] ELSE m

---------------------------------------------------------------------------
(* manage-release.py *)

\* one line of standard error: its text and, for a per-file line, the file and numbers
Line(text) == [text |-> text, file |-> 0, old |-> 0, new |-> 0]

FileLine(text, i, old, new) == [text |-> text, file |-> i, old |-> old, new |-> new]

Ok(v) == [raised |-> FALSE, value |-> v]

ValueError == [raised |-> TRUE, value |-> <<>>]

\* parse_semver that only rejects a tag with too few components
parse_semver_too_few(tag) ==
    LET parts == Split(Lstrip(tag, "v"), ".")
    IN  IF Len(parts) < 3 THEN ValueError
        ELSE IF \A i \in 1..3 : IsInt(parts[i])
             THEN Ok(<<IntOf(parts[1]), IntOf(parts[2]), IntOf(parts[3])>>)
             ELSE ValueError

\* parse_semver: the triple, or ValueError
parse_semver(tag) ==
    LET parts == Split(Lstrip(tag, "v"), ".")
    IN  IF Len(parts) # 3 THEN ValueError
        ELSE IF \A i \in 1..3 : IsInt(parts[i])
             THEN Ok(<<IntOf(parts[1]), IntOf(parts[2]), IntOf(parts[3])>>)
             ELSE ValueError

FormatTag(major, minor, patch) ==
    <<"v">> \o StrOf(major) \o <<".">> \o StrOf(minor) \o <<".">> \o StrOf(patch)

\* increment_version whose major bump keeps the minor and patch numbers
increment_version_no_reset(tag, update_type) ==
    IF update_type \notin {"patch", "minor", "major"} THEN ValueError
    ELSE LET p == parse_semver(tag)
         IN  IF p.raised THEN ValueError
             ELSE LET major == p.value[1]
                      minor == p.value[2]
                      patch == p.value[3]
                  IN  IF update_type = "major" THEN Ok(FormatTag(major + 1, minor, patch))
                      ELSE IF update_type = "minor" THEN Ok(FormatTag(major, minor, patch))
                      ELSE Ok(FormatTag(major, minor, patch + 1))

increment_version(tag, update_type) ==
    IF update_type \notin {"patch", "minor", "major"} THEN ValueError
    ELSE LET p == parse_semver(tag)
         IN  IF p.raised THEN ValueError
             ELSE LET major == p.value[1]
                      minor == p.value[2]
                      patch == p.value[3]
                  IN  IF update_type = "major" THEN Ok(FormatTag(major + 1, 0, 0))
                      ELSE IF update_type = "minor" THEN Ok(FormatTag(major, minor + 1, 0))
                      ELSE Ok(FormatTag(major, minor, patch + 1))

\* the versionName line is matched with either quote character
get_version_from_gradle ==
    IF commonGradle.exists /\ commonGradle.versionName
    THEN commonGradle.major \o <<".">> \o commonGradle.minor
    ELSE None

get_version_from_gradle_warnings ==
    IF ~commonGradle.exists THEN <<Line("Warning: common.gradle not found")>>
    ELSE IF ~commonGradle.versionName
         THEN <<Line("Warning: versionName pattern not found in common.gradle")>>
         ELSE <<>>

\* FirstCode that reads the last extVersionCode of the file
LastCode(file) == IF file = <<>> THEN 0 ELSE file[Len(file)]

\* the first extVersionCode of each file that has one; 0 when there is none
FirstCode(file) == IF file = <<>> THEN 0 ELSE file[1]

get_max_version_code ==
    MaxOf([i \in 1..Len(buildFiles) |-> FirstCode(buildFiles[i])], Len(buildFiles))

get_actual_version ==
    LET gradle_version == get_version_from_gradle
        max_version_code == get_max_version_code
    IN  IF gradle_version # <<>> /\ max_version_code > 0
        THEN <<"v">> \o gradle_version \o <<".">> \o StrOf(max_version_code)
        ELSE None

\* determine_version, HEAD on a tag and a bump asked for: the actual version
\* when there is one, else the increment of the current tag
bump_from_current_tag(update_type) ==
    LET actual_version == get_actual_version
    IN  IF actual_version # <<>>
        THEN [res |-> Ok(actual_version),
              err |-> <<Line("Using actual version from APKs")>>]
        ELSE LET r == increment_version(currentTag, update_type)
             IN  [res |-> r,
                  err |-> get_version_from_gradle_warnings \o
                          (IF r.raised THEN <<Line("ValueError")>>
                           ELSE <<Line("Incrementing version")>>)]

\* bump_from_latest_tag that increments the tag whenever it can
bump_from_latest_tag_arithmetic_first(update_type) ==
    LET actual_version == get_actual_version
        r == increment_version(latestTag, update_type)
    IN  IF ~r.raised
        THEN [res |-> r, err |-> <<Line("Creating new version")>>]
        ELSE IF actual_version # <<>>
        THEN [res |-> Ok(actual_version),
              err |-> <<Line("Creating new version from APKs")>>]
        ELSE [res |-> r, err |-> get_version_from_gradle_warnings \o <<Line("ValueError")>>]

\* determine_version, HEAD off any tag and a bump asked for: the same against
\* the latest tag
bump_from_latest_tag(update_type) ==
    LET actual_version == get_actual_version
    IN  IF actual_version # <<>>
        THEN [res |-> Ok(actual_version),
              err |-> <<Line("Creating new version from APKs")>>]
        ELSE LET r == increment_version(latestTag, update_type)
             IN  [res |-> r,
                  err |-> get_version_from_gradle_warnings \o
                          (IF r.raised THEN <<Line("ValueError")>>
                           ELSE <<Line("Creating new version")>>)]

\* determine_version that, off any tag, forgets to test for none
determine_version_none_forgotten(update_type) ==
    IF currentTag # <<>>
    THEN IF update_type # "none"
         THEN LET b == bump_from_current_tag(update_type)
              IN  [res |-> b.res, err |-> <<Line("Building from tag")>> \o b.err]
         ELSE [res |-> Ok(currentTag), err |-> <<Line("Building from tag")>>]
    ELSE IF latestTag = <<>>
    THEN [res |-> Ok(<<"v", "1", ".", "0", ".", "0">>),
          err |-> <<Line("No existing tags found, using v1.0.0")>>]
    ELSE bump_from_latest_tag(update_type)

\* determine_version: the returned tag (or the exception) and the diagnostics
determine_version(update_type) ==
    IF currentTag # <<>>
    THEN IF update_type # "none"
         THEN LET b == bump_from_current_tag(update_type)
              IN  [res |-> b.res, err |-> <<Line("Building from tag")>> \o b.err]
         ELSE [res |-> Ok(currentTag), err |-> <<Line("Building from tag")>>]
    ELSE IF latestTag = <<>>
    THEN [res |-> Ok(<<"v", "1", ".", "0", ".", "0">>),
          err |-> <<Line("No existing tags found, using v1.0.0")>>]
    ELSE IF update_type = "none"
    THEN [res |-> Ok(latestTag), err |-> <<Line("Updating latest release")>>]
    ELSE bump_from_latest_tag(update_type)

\* update_type = sys.argv[1] if len(sys.argv) > 1 else 'none'
\* version = determine_version(update_type); print(version)
ResolveVersion(args) ==
    LET update_type == IF Len(args) > 0 THEN args[1] ELSE "none"
        d == determine_version(update_type)
    IN  /\ argv' = [script |-> "manage-release.py", args |-> args]
        /\ stdout' = IF d.res.raised THEN <<>> ELSE d.res.value
        /\ stderr' = d.err
        /\ exitCode' = IF d.res.raised THEN 1 ELSE 0
        /\ UNCHANGED <<currentTag, latestTag, buildFiles, commonGradle, updateLog>>
        /\ UNCHANGED changelogVars

\* python manage-release.py [update_type], run on its own
ManageRelease(args) == ResolveVersion(args) /\ UNCHANGED resolvedTags

---------------------------------------------------------------------------
(* update-versions.py *)

\* update_version_code that takes the old counter for 0
update_version_code_from_zero(file) ==
    IF file = <<>> THEN [content |-> file, found |-> FALSE, old |-> 0, new |-> 0]
    ELSE LET old_version == 0
             new_version == old_version + 1
         IN  [content |-> [file EXCEPT ![1] = new_version], found |-> TRUE,
              old |-> old_version, new |-> new_version]

\* update_version_code: only the first occurrence of the counter is rewritten
update_version_code(file) ==
    IF file = <<>> THEN [content |-> file, found |-> FALSE, old |-> 0, new |-> 0]
    ELSE LET old_version == file[1]
             new_version == old_version + 1
         IN  [content |-> [file EXCEPT ![1] = new_version], found |-> TRUE,
              old |-> old_version, new |-> new_version]

\* update_version_code_lines that skips a file without a counter silently
update_version_code_lines_silent(i) ==
    LET u == update_version_code(buildFiles[i])
    IN  <<FileLine("extVersionCode", i, u.old, u.new)>>

update_version_code_lines(i) ==
    LET u == update_version_code(buildFiles[i])
    IN  (IF u.found THEN <<>> ELSE <<FileLine("Warning: No extVersionCode found", i, 0, 0)>>)
        \o <<FileLine("extVersionCode", i, u.old, u.new)>>

\* update_version_name whose major bump keeps the minor part
update_version_name_keeps_minor(update_type) ==
    IF ~commonGradle.exists
    THEN [content |-> commonGradle, old |-> <<>>, new |-> <<>>,
          err |-> <<Line("Warning: common.gradle not found")>>]
    ELSE IF ~(commonGradle.versionName /\ commonGradle.quote = "\"")
    THEN [content |-> commonGradle, old |-> <<>>, new |-> <<>>,
          err |-> <<Line("Warning: versionName pattern not found in common.gradle")>>]
    ELSE LET current_major == IntOf(commonGradle.major)
             current_minor == IntOf(commonGradle.minor)
             old_version == <<current_major, current_minor>>
         IN  IF update_type = "minor"
             THEN [content |-> [commonGradle EXCEPT !.major = StrOf(current_major),
                                                    !.minor = StrOf(current_minor + 1)],
                   old |-> old_version, new |-> <<current_major, current_minor + 1>>,
                   err |-> <<>>]
             ELSE IF update_type = "major"
             THEN [content |-> [commonGradle EXCEPT !.major = StrOf(current_major + 1),
                                                    !.minor = StrOf(current_minor)],
                   old |-> old_version, new |-> <<current_major + 1, current_minor>>,
                   err |-> <<>>]
             ELSE [content |-> commonGradle, old |-> old_version, new |-> old_version,
                   err |-> <<>>]

\* update_version_name: the pattern is matched with double quotes only
update_version_name(update_type) ==
    IF ~commonGradle.exists
    THEN [content |-> commonGradle, old |-> <<>>, new |-> <<>>,
          err |-> <<Line("Warning: common.gradle not found")>>]
    ELSE IF ~(commonGradle.versionName /\ commonGradle.quote = "\"")
    THEN [content |-> commonGradle, old |-> <<>>, new |-> <<>>,
          err |-> <<Line("Warning: versionName pattern not found in common.gradle")>>]
    ELSE LET current_major == IntOf(commonGradle.major)
             current_minor == IntOf(commonGradle.minor)
             old_version == <<current_major, current_minor>>
         IN  IF update_type = "minor"
             THEN [content |-> [commonGradle EXCEPT !.major = StrOf(current_major),
                                                    !.minor = StrOf(current_minor + 1)],
                   old |-> old_version, new |-> <<current_major, current_minor + 1>>,
                   err |-> <<>>]
             ELSE IF update_type = "major"
             THEN [content |-> [commonGradle EXCEPT !.major = StrOf(current_major + 1),
                                                    !.minor = StrOf(0)],
                   old |-> old_version, new |-> <<current_major + 1, 0>>,
                   err |-> <<>>]
             ELSE [content |-> commonGradle, old |-> old_version, new |-> old_version,
                   err |-> <<>>]

RECURSIVE ConcatLines(_, _)
ConcatLines(f, n) == IF n = 0 THEN <<>> ELSE ConcatLines(f, n - 1) \o f[n]

Exit(code, err) ==
    /\ exitCode' = code
    /\ stderr' = err
    /\ stdout' = <<>>

\* python update-versions.py <src_dir> <update_type>, run from the repository
\* root with src_dir = src, the directory manage-release.py reads
UpdateVersions(args) ==
    /\ argv' = [script |-> "update-versions.py", args |-> args]
    /\ UNCHANGED <<currentTag, latestTag, resolvedTags>>
    /\ UNCHANGED changelogVars
    /\ IF Len(args) < 2
       THEN /\ Exit(1, <<Line("Usage: update-versions.py <src_dir> <update_type>")>>)
            /\ UNCHANGED <<buildFiles, commonGradle, updateLog>>
       ELSE LET update_type == args[2] IN
            IF update_type \notin {"none", "patch", "minor", "major"}
            THEN /\ Exit(1, <<Line("ValueError")>>)
                 /\ UNCHANGED <<buildFiles, commonGradle, updateLog>>
            ELSE IF update_type = "none"
            THEN /\ Exit(0, <<Line("No version update")>>)
                 /\ UNCHANGED <<buildFiles, commonGradle, updateLog>>
            ELSE IF buildFiles = <<>>
            THEN /\ Exit(0, <<Line("No build.gradle files found")>>)
                 /\ UNCHANGED <<buildFiles, commonGradle, updateLog>>
            ELSE LET n == Len(buildFiles)
                     named == update_type \in {"minor", "major"}
                     vn == update_version_name(update_type)
                 IN  /\ Len(updateLog) < MaxUpdates
                     /\ buildFiles' =
                            [i \in 1..n |-> update_version_code(buildFiles[i]).content]
                     /\ commonGradle' = IF named THEN vn.content ELSE commonGradle
                     /\ updateLog' = Append(updateLog,
                            [update_type |-> update_type, files |-> buildFiles,
                             gradle |-> commonGradle])
                     /\ Exit(0,
                            <<Line("Updating versions"), Line("extVersionCode increment: +1")>>
                            \o ConcatLines([i \in 1..n |-> update_version_code_lines(i)], n)
                            \o (IF named
                                THEN vn.err \o
                                     (IF vn.old # <<>> /\ vn.new # <<>> /\ vn.old # vn.new
                                      THEN <<Line("versionName")>> ELSE <<>>)
                                ELSE <<>>))

---------------------------------------------------------------------------
(* generate-changelog.py *)
(* A message is the sequence of its tokens: a maximal run of word          *)
(* characters is one token, every other character is a token of its own.   *)
(* A path is the sequence of its "/"-separated segments.                   *)

IsWord(tok) == tok \notin {"(", ")", "!", ":", " "}

\* re.match(r'src/([^/]+)/([^/]+)/', file_path): the second group, or None
get_app_from_path(file_path) ==
    IF /\ Len(file_path) >= 4
       /\ file_path[1] = "src"
       /\ file_path[2] # ""
       /\ file_path[3] # ""
    THEN file_path[3]
    ELSE ""

detect_affected_apps(files) ==
    { get_app_from_path(files[i]) : i \in 1..Len(files) } \ {""}

\* index of the first ")" at or after position i, 0 when there is none
RECURSIVE FirstClose(_, _)
FirstClose(m, i) ==
    IF i > Len(m) THEN 0
    ELSE IF m[i] = ")" THEN i
    ELSE FirstClose(m, i + 1)

RECURSIVE SkipSpaces(_, _)
SkipSpaces(m, i) ==
    IF i <= Len(m) /\ m[i] = " " THEN SkipSpaces(m, i + 1) ELSE i

NoMatch == [matched |-> FALSE, type |-> "", scope |-> <<>>, breaking |-> FALSE,
            description |-> <<>>]

\* ^(\w+)(?:\(([^)]+)\))?(!)?:\s*(.+)$ from position i on, the type being matched
MatchAfterScope(m, i, type, scope) ==
    LET breaking == i <= Len(m) /\ m[i] = "!"
        j == IF breaking THEN i + 1 ELSE i
    IN  IF ~(j <= Len(m) /\ m[j] = ":") THEN NoMatch
        ELSE LET k == SkipSpaces(m, j + 1)
             IN  IF k <= Len(m)
                 THEN [matched |-> TRUE, type |-> type, scope |-> scope,
                       breaking |-> breaking, description |-> SubSeq(m, k, Len(m))]
                 ELSE IF k > j + 1
                 THEN \* \s* gives its last blank back to (.+)
                      [matched |-> TRUE, type |-> type, scope |-> scope,
                       breaking |-> breaking, description |-> <<" ">>]
                 ELSE NoMatch

parse_conventional_commit(message) ==
    IF message = <<>> \/ ~IsWord(message[1]) THEN NoMatch
    ELSE IF Len(message) >= 2 /\ message[2] = "("
    THEN LET c == FirstClose(message, 3)
         IN  IF c <= 3 THEN NoMatch
             ELSE MatchAfterScope(message, c + 1, message[1], SubSeq(message, 3, c - 1))
    ELSE MatchAfterScope(message, 2, message[1], <<>>)

\* the app names in sorted order
AppOrder == <<"bar", "foo">>

RECURSIVE SortedApps(_, _)
SortedApps(apps, i) ==
    IF i > Len(AppOrder) THEN <<>>
    ELSE (IF AppOrder[i] \in apps THEN <<AppOrder[i]>> ELSE <<>>) \o SortedApps(apps, i + 1)

RECURSIVE CommaJoin(_)
CommaJoin(names) ==
    IF names = <<>> THEN <<>>
    ELSE IF Len(names) = 1 THEN <<names[1]>>
    ELSE <<names[1], ",", " ">> \o CommaJoin(Tail(names))

WithApps(description, affected_apps) ==
    IF affected_apps # {}
    THEN description \o <<" ", "(">> \o CommaJoin(SortedApps(affected_apps, 1)) \o <<")">>
    ELSE description

\* the entry a commit adds to changelog_data, and the key it is added under
ClassifyCommit(commit) ==
    LET parsed == parse_conventional_commit(commit.message)
        affected_apps == detect_affected_apps(commit.files)
    IN  IF parsed.matched
        THEN [key |-> parsed.type,
              entry |-> [description |-> WithApps(parsed.description, affected_apps),
                         breaking |-> parsed.breaking, hash |-> commit.hash]]
        ELSE [key |-> "other",
              entry |-> [description |-> WithApps(commit.message, affected_apps),
                         breaking |-> FALSE, hash |-> commit.hash]]

KeyIndex(data, key) ==
    IF \E i \in 1..Len(data) : data[i].key = key
    THEN CHOOSE i \in 1..Len(data) : data[i].key = key
    ELSE 0

\* changelog_data[key].append(entry): a dict keeps its keys in insertion order
DictAppend(data, key, entry) ==
    LET i == KeyIndex(data, key)
    IN  IF i = 0 THEN Append(data, [key |-> key, commits |-> <<entry>>])
        ELSE [data EXCEPT ![i].commits = Append(@, entry)]

RECURSIVE CollectCommits(_, _)
CollectCommits(commits, n) ==
    IF n = 0 THEN <<>>
    ELSE LET c == ClassifyCommit(commits[n])
         IN  DictAppend(CollectCommits(commits, n - 1), c.key, c.entry)

TypeOrder ==
    <<"feat", "fix", "docs", "style", "refactor", "perf", "test", "build", "ci",
      "chore", "other">>

HeaderLine(section) ==
    [kind |-> "header", section |-> section, description |-> <<>>, hash |-> 0]

BlankLine == [kind |-> "blank", section |-> "", description |-> <<>>, hash |-> 0]

BreakingLine(commit) ==
    [kind |-> "breaking", section |-> "", description |-> commit.description,
     hash |-> commit.hash]

EntryLine(commit) ==
    [kind |-> "entry", section |-> "", description |-> commit.description,
     hash |-> commit.hash]

SentinelLine ==
    [kind |-> "sentinel", section |-> "", description |-> <<>>, hash |-> 0]

RECURSIVE BreakingOf(_, _)
BreakingOf(commits_list, n) ==
    IF n = 0 THEN <<>>
    ELSE BreakingOf(commits_list, n - 1) \o
         (IF commits_list[n].breaking THEN <<BreakingLine(commits_list[n])>> ELSE <<>>)

\* for commit_type, commits_list in changelog_data.items()
RECURSIVE BreakingChanges(_, _)
BreakingChanges(data, n) ==
    IF n = 0 THEN <<>>
    ELSE BreakingChanges(data, n - 1) \o BreakingOf(data[n].commits, Len(data[n].commits))

\* NonBreakingOf that lists the breaking commits of the type as well
RECURSIVE EveryCommitOf(_, _)
EveryCommitOf(commits_list, n) ==
    IF n = 0 THEN <<>>
    ELSE EveryCommitOf(commits_list, n - 1) \o <<EntryLine(commits_list[n])>>

RECURSIVE NonBreakingOf(_, _)
NonBreakingOf(commits_list, n) ==
    IF n = 0 THEN <<>>
    ELSE NonBreakingOf(commits_list, n - 1) \o
         (IF ~commits_list[n].breaking THEN <<EntryLine(commits_list[n])>> ELSE <<>>)

\* the header is written when the type has commits, breaking or not
SectionOf(data, commit_type) ==
    LET i == KeyIndex(data, commit_type)
    IN  IF i # 0 /\ data[i].commits # <<>>
        THEN <<HeaderLine(commit_type), BlankLine>>
             \o NonBreakingOf(data[i].commits, Len(data[i].commits))
             \o <<BlankLine>>
        ELSE <<>>

RECURSIVE Sections(_, _)
Sections(data, n) ==
    IF n = 0 THEN <<>>
    ELSE Sections(data, n - 1) \o SectionOf(data, TypeOrder[n])

\* '\n'.join(changelog_lines).strip(): the blank lines at the end go
RECURSIVE Strip(_)
Strip(lines) ==
    IF lines # <<>> /\ lines[Len(lines)].kind = "blank"
    THEN Strip(SubSeq(lines, 1, Len(lines) - 1))
    ELSE lines

generate_changelog(commits) ==
    IF commits = <<>> THEN <<SentinelLine>>
    ELSE LET changelog_data == CollectCommits(commits, Len(commits))
             breaking_changes == BreakingChanges(changelog_data, Len(changelog_data))
         IN  Strip((IF breaking_changes # <<>>
                    THEN <<HeaderLine("breaking"), BlankLine>> \o breaking_changes
                         \o <<BlankLine>>
                    ELSE <<>>)
                   \o Sections(changelog_data, Len(TypeOrder)))

\* python generate-changelog.py [since_tag]
GenerateChangelog ==
    /\ changelog' = generate_changelog(gitLog)
    /\ argv' = [script |-> "generate-changelog.py", args |-> <<>>]
    /\ UNCHANGED <<currentTag, latestTag, buildFiles, commonGradle, updateLog,
                   stdout, stderr, exitCode, gitLog, resolvedTags>>

---------------------------------------------------------------------------
(* Inputs *)

UpdateTypeArgs == {"none", "patch", "minor", "major", "bogus"}

\* components of a tag: plain, with a leading zero and a carry, not a number
CompStrs == { <<"1">>, <<"0", "9">>, <<"x">> }

Prefixes == { <<>>, <<"v">> }

\* three components drawn freely, or one, two or four numeric ones
TagBodies ==
    { Join(c, ".") : c \in [1..3 -> CompStrs] } \cup
    { Join([i \in 1..n |-> <<"1">>], ".") : n \in {1, 2, 4} }

Tags == { p \o b : p \in Prefixes, b \in TagBodies }

\* HEAD on a tag (then that tag is also the nearest one), or off any tag
TagStates ==
    { <<t, t>> : t \in Tags } \cup { <<None, t>> : t \in Tags \cup {None} }

\* a build.gradle: no counter, a counter, a counter and a second look-alike
FileContents == { <<>>, <<0>>, <<5>>, <<5, 7>> }

FileSets == UNION { [1..n -> FileContents] : n \in 0..MaxFiles }

VersionParts == { <<"1">>, <<"0", "9">> }

NoCommonGradle ==
    [exists |-> FALSE, versionName |-> FALSE, quote |-> "\"", major |-> <<>>, minor |-> <<>>]

CommonGradles ==
    { NoCommonGradle, [NoCommonGradle EXCEPT !.exists = TRUE] } \cup
    { [exists |-> TRUE, versionName |-> TRUE, quote |-> q, major |-> a, minor |-> b] :
        q \in {"\"", "'"}, a \in VersionParts, b \in VersionParts }

NoCommand == [script |-> "", args |-> <<>>]

InitOutputs ==
    /\ argv = NoCommand
    /\ stdout = <<>>
    /\ stderr = <<>>
    /\ exitCode = 0
    /\ updateLog = <<>>
    /\ resolvedTags = <<>>

InitChangelogIdle ==
    /\ gitLog = <<>>
    /\ changelog = <<>>

---------------------------------------------------------------------------
(* Version resolution over every tag state and every state of the files *)

InitResolve ==
    /\ \E ts \in TagStates : currentTag = ts[1] /\ latestTag = ts[2]
    /\ buildFiles \in FileSets
    /\ commonGradle \in CommonGradles
    /\ InitOutputs
    /\ InitChangelogIdle

NextResolve ==
    \/ \E t \in UpdateTypeArgs : ManageRelease(<<t>>)
    \/ ManageRelease(<<>>)

SpecResolve == InitResolve /\ [][NextResolve]_vars

---------------------------------------------------------------------------
(* Counter updates over every state of the files; no tag is involved *)

UpdateArgLists == { <<>>, <<"src">> } \cup { <<"src", t>> : t \in UpdateTypeArgs }

InitUpdate ==
    /\ currentTag = None
    /\ latestTag = None
    /\ buildFiles \in FileSets
    /\ commonGradle \in CommonGradles
    /\ InitOutputs
    /\ InitChangelogIdle

NextUpdate == \E args \in UpdateArgLists : UpdateVersions(args)

SpecUpdate == InitUpdate /\ [][NextUpdate]_vars

---------------------------------------------------------------------------
(* Changelog rendering over every commit range *)

TypeTokens == {"feat", "fix", "wip"}

ConventionalMessage(type, scope, bang) ==
    <<type>> \o (IF scope # "" THEN <<"(", scope, ")">> ELSE <<>>)
             \o (IF bang THEN <<"!">> ELSE <<>>) \o <<":", " ", "x">>

Messages ==
    { ConventionalMessage(t, "", b) : t \in TypeTokens, b \in BOOLEAN } \cup
    { ConventionalMessage("feat", "parser", FALSE), <<"tweak", " ", "stuff">> }

FileLists == { <<>>, << <<"src", "en", "bar", "Bar.kt">> >> }

\* the commits of a range; a commit's hash is told by its place in the log
CommitLog(c) ==
    [i \in 1..Len(c) |-> [hash |-> i, message |-> c[i][1], files |-> c[i][2]]]

InitChangelog ==
    /\ currentTag = None
    /\ latestTag = None
    /\ buildFiles = <<>>
    /\ commonGradle = NoCommonGradle
    /\ InitOutputs
    /\ \E n \in 0..MaxCommits :
          \E c \in [1..n -> Messages \X FileLists] : gitLog = CommitLog(c)
    /\ changelog = <<>>

NextChangelog == GenerateChangelog

SpecChangelog == InitChangelog /\ [][NextChangelog]_vars

---------------------------------------------------------------------------
(* Properties of version resolution, checked under SpecResolve *)

BumpClasses == {"patch", "minor", "major"}

Resolved == argv.script = "manage-release.py"

\* the bump class the last resolution ran with (none when no argument was given)
ResolvedType == IF Len(argv.args) > 0 THEN argv.args[1] ELSE "none"

\* the tag resolution works from
ReferenceTag == IF currentTag # <<>> THEN currentTag ELSE latestTag

\* exactly three dot-separated components, all decimal integers, after an optional v
ThreeIntegerComponents(tag) ==
    LET body == IF tag # <<>> /\ Head(tag) = "v" THEN Tail(tag) ELSE tag
        parts == Split(body, ".")
    IN  Len(parts) = 3 /\ \A i \in 1..3 : IsInt(parts[i])

TripleOf(tag) == parse_semver(tag).value

\* the order of versions: lexicographic on (major, minor, patch)
VersionLess(a, b) ==
    \/ a[1] < b[1]
    \/ a[1] = b[1] /\ a[2] < b[2]
    \/ a[1] = b[1] /\ a[2] = b[2] /\ a[3] < b[3]

PrintedVersion == exitCode = 0 /\ stdout # <<>>

PrintedGreaterThanReference ==
    /\ PrintedVersion
    /\ ThreeIntegerComponents(stdout)
    /\ VersionLess(TripleOf(ReferenceTag), TripleOf(stdout))

\* C1 as claimed: from a well-formed reference tag, every resolution with
\* patch, minor or major prints a version strictly greater than that tag,
\* whether or not an actual built version is available.
C1_AlwaysGreater ==
    (/\ Resolved
     /\ ResolvedType \in BumpClasses
     /\ ReferenceTag # <<>>
     /\ ThreeIntegerComponents(ReferenceTag))
    => PrintedGreaterThanReference

\* C1 as amended: without an actual built version the printed version is
\* strictly greater than the well-formed reference tag; with one, the actual
\* version is printed as it is, greater than the tag or not.
C1_GreaterWithoutActual ==
    (/\ Resolved
     /\ ResolvedType \in BumpClasses
     /\ ReferenceTag # <<>>
     /\ ThreeIntegerComponents(ReferenceTag))
    => /\ get_actual_version = <<>> => PrintedGreaterThanReference
       /\ get_actual_version # <<>> => PrintedVersion /\ stdout = get_actual_version

C1_Witness ==
    /\ Resolved
    /\ ResolvedType = "major"
    /\ currentTag = <<"v", "0", "9", ".", "1", ".", "0", "9">>
    /\ get_actual_version = <<>>
    /\ stdout = <<"v", "1", "0", ".", "0", ".", "0">>

\* the triple the claim gives for a bump of the triple v
ArithmeticIncrement(v, update_type) ==
    IF update_type = "major" THEN <<v[1] + 1, 0, 0>>
    ELSE IF update_type = "minor" THEN <<v[1], v[2] + 1, 0>>
    ELSE <<v[1], v[2], v[3] + 1>>

\* C3: with a tag and a bump of patch, minor or major, the actual built
\* version is printed whenever there is one; otherwise the printed version is
\* the arithmetic increment of the reference tag.
C3_ActualElseIncrement ==
    (/\ Resolved
     /\ ResolvedType \in BumpClasses
     /\ ReferenceTag # <<>>)
    => /\ get_actual_version # <<>> => PrintedVersion /\ stdout = get_actual_version
       /\ (get_actual_version = <<>> /\ ThreeIntegerComponents(ReferenceTag))
          => /\ PrintedVersion
             /\ ThreeIntegerComponents(stdout)
             /\ TripleOf(stdout) = ArithmeticIncrement(TripleOf(ReferenceTag), ResolvedType)

C3_Witness ==
    /\ Resolved
    /\ ResolvedType = "minor"
    /\ currentTag = <<>>
    /\ latestTag = <<"1", ".", "0", "9", ".", "1">>
    /\ get_actual_version # <<>>
    /\ stdout = get_actual_version
    /\ stdout # <<"v", "1", ".", "1", "0", ".", "0">>

\* C4 as claimed: a reference tag that is not three integer components makes
\* resolution fail and print nothing, for every bump class, none included,
\* with or without an actual built version.
C4_MalformedAlwaysFails ==
    (/\ Resolved
     /\ ResolvedType \in BumpClasses \cup {"none"}
     /\ ReferenceTag # <<>>
     /\ ~ThreeIntegerComponents(ReferenceTag))
    => exitCode # 0 /\ stdout = <<>>

\* C4 as amended: such a tag makes resolution fail and print nothing when the
\* bump is patch, minor or major and no actual built version is available;
\* with none the tag is printed unchanged, and with an actual built version
\* that version is printed, the tag not being parsed.
C4_MalformedFailsOnIncrement ==
    (/\ Resolved
     /\ ResolvedType \in BumpClasses \cup {"none"}
     /\ ReferenceTag # <<>>
     /\ ~ThreeIntegerComponents(ReferenceTag))
    => /\ (ResolvedType # "none" /\ get_actual_version = <<>>)
          => exitCode # 0 /\ stdout = <<>>
       /\ ResolvedType = "none" => exitCode = 0 /\ stdout = ReferenceTag
       /\ (ResolvedType # "none" /\ get_actual_version # <<>>)
          => exitCode = 0 /\ stdout = get_actual_version

C4_Witness ==
    /\ Resolved
    /\ ResolvedType = "patch"
    /\ currentTag = <<"v", "1", ".", "1", ".", "1", ".", "1">>
    /\ get_actual_version = <<>>
    /\ exitCode = 1
    /\ stdout = <<>>

\* C5: a bump-class argument outside none, patch, minor, major makes the
\* command fail and print no version, in every tag state and with or without
\* an actual built version.
C5_UnknownClassFails ==
    (Resolved /\ ResolvedType \notin BumpClasses \cup {"none"})
    => exitCode # 0 /\ stdout = <<>>

\* C8: with none and a tag to work from, resolution prints exactly the
\* reference tag (the current tag on a tag, else the latest one) and leaves
\* tags and files alone, so that resolving again prints the same tag.
C8_NoneReturnsTag ==
    [][(/\ argv'.script = "manage-release.py"
        /\ (IF Len(argv'.args) > 0 THEN argv'.args[1] ELSE "none") = "none"
        /\ ReferenceTag # <<>>)
       => /\ exitCode' = 0
          /\ stdout' = ReferenceTag
          /\ UNCHANGED <<currentTag, latestTag, buildFiles, commonGradle>>
          /\ (Resolved /\ ResolvedType = "none") => stdout' = stdout]_vars

C8_Witness ==
    /\ Resolved
    /\ ResolvedType = "none"
    /\ currentTag = <<>>
    /\ latestTag = <<"v", "x", ".", "1", ".", "1">>
    /\ get_actual_version # <<>>
    /\ stdout = latestTag

---------------------------------------------------------------------------
(* Properties of the counter update, checked under SpecUpdate *)

\* the step is a run of update-versions.py with bump class t
UpdateRanWith(t) ==
    /\ argv'.script = "update-versions.py"
    /\ Len(argv'.args) >= 2
    /\ argv'.args[2] = t

HasCounter(file) == file # <<>>

Counter(file) == file[1]

\* the amounts the claim gives, and the amounts the script adds
ClaimedAmount(t) ==
    IF t = "patch" THEN 1 ELSE IF t = "minor" THEN 10 ELSE IF t = "major" THEN 100 ELSE 0

WrittenAmount(t) == IF t \in {"patch", "minor", "major"} THEN 1 ELSE 0

\* the files before the first update that wrote, when there was one
StartFiles == updateLog[1].files

MinorThenMajorFromFive ==
    /\ Len(updateLog) = 2
    /\ updateLog[1].update_type = "minor"
    /\ updateLog[2].update_type = "major"
    /\ \A i \in 1..Len(StartFiles) : HasCounter(StartFiles[i]) /\ Counter(StartFiles[i]) = 5

EqualStartEqualEnd ==
    updateLog # <<>> =>
        \A i, j \in 1..Len(StartFiles) :
            (/\ HasCounter(StartFiles[i]) /\ HasCounter(StartFiles[j])
             /\ Counter(StartFiles[i]) = Counter(StartFiles[j]))
            => Counter(buildFiles[i]) = Counter(buildFiles[j])

\* C2 as claimed: a run adds to every counter 0 for none, 1 for patch, 10 for
\* minor, 100 for major; minor then major from counters of 5 leaves every
\* counter at 115; equal counters stay equal.
C2_ClaimedAmounts ==
    /\ [][\A t \in {"none", "patch", "minor", "major"} :
            UpdateRanWith(t) =>
                /\ Len(buildFiles') = Len(buildFiles)
                /\ \A i \in 1..Len(buildFiles) :
                      HasCounter(buildFiles[i]) =>
                          /\ HasCounter(buildFiles'[i])
                          /\ Counter(buildFiles'[i]) = Counter(buildFiles[i]) + ClaimedAmount(t)]_vars
    /\ [](MinorThenMajorFromFive =>
            \A i \in 1..Len(buildFiles) : Counter(buildFiles[i]) = 115)
    /\ []EqualStartEqualEnd

\* C2 as amended: a run adds to every counter a descriptor holds 0 for none
\* and 1 for patch, minor and major alike; minor then major from counters of 5
\* leaves every counter at 7; equal counters stay equal.
C2_WrittenAmounts ==
    /\ [][\A t \in {"none", "patch", "minor", "major"} :
            UpdateRanWith(t) =>
                /\ Len(buildFiles') = Len(buildFiles)
                /\ \A i \in 1..Len(buildFiles) :
                      HasCounter(buildFiles[i]) =>
                          /\ HasCounter(buildFiles'[i])
                          /\ Counter(buildFiles'[i]) = Counter(buildFiles[i]) + WrittenAmount(t)]_vars
    /\ [](MinorThenMajorFromFive =>
            \A i \in 1..Len(buildFiles) : Counter(buildFiles[i]) = 7)
    /\ []EqualStartEqualEnd

C2_Witness ==
    /\ MinorThenMajorFromFive
    /\ StartFiles = << <<5>>, <<5, 7>> >>
    /\ buildFiles = << <<7>>, <<7, 7>> >>
    /\ argv = [script |-> "update-versions.py", args |-> <<"src", "major">>]

MissingCounterWarned(err, i) ==
    \E k \in 1..Len(err) :
        err[k].text = "Warning: No extVersionCode found" /\ err[k].file = i

\* C6: in an update with patch, minor or major, a descriptor without a counter
\* field is warned about and left as it is, the run exits normally, and every
\* descriptor with a counter field has its counter raised.
C6_MissingCounterSkipped ==
    [][\A t \in BumpClasses :
          UpdateRanWith(t) =>
              /\ exitCode' = 0
              /\ Len(buildFiles') = Len(buildFiles)
              /\ \A i \in 1..Len(buildFiles) :
                    /\ ~HasCounter(buildFiles[i]) =>
                          /\ buildFiles'[i] = buildFiles[i]
                          /\ MissingCounterWarned(stderr', i)
                    /\ HasCounter(buildFiles[i]) =>
                          /\ HasCounter(buildFiles'[i])
                          /\ Counter(buildFiles'[i]) > Counter(buildFiles[i])]_vars

C6_Witness ==
    /\ argv = [script |-> "update-versions.py", args |-> <<"src", "patch">>]
    /\ Len(updateLog) = 1
    /\ StartFiles = << <<>>, <<5>> >>
    /\ buildFiles = << <<>>, <<6>> >>
    /\ MissingCounterWarned(stderr, 1)
    /\ exitCode = 0

\* common.gradle holds a versionName line, in either kind of quotes
HoldsVersion(g) == g.exists /\ g.versionName

TwoPart(g) == <<IntOf(g.major), IntOf(g.minor)>>

BumpedTwoPart(v, t) ==
    IF t = "minor" THEN <<v[1], v[2] + 1>>
    ELSE IF t = "major" THEN <<v[1] + 1, 0>>
    ELSE v

\* C7 as claimed: an update changes the two-part version of common.gradle to
\* (major, minor+1) on minor and to (major+1, 0) on major, and leaves it
\* unchanged on patch and none.
C7_TwoPartBumped ==
    [][\A t \in {"none", "patch", "minor", "major"} :
          (UpdateRanWith(t) /\ HoldsVersion(commonGradle)) =>
              /\ HoldsVersion(commonGradle')
              /\ TwoPart(commonGradle') = BumpedTwoPart(TwoPart(commonGradle), t)
              /\ t \in {"none", "patch"} => commonGradle' = commonGradle]_vars

\* the update reaches the versionName line and can rewrite it
Rewritable == buildFiles # <<>> /\ HoldsVersion(commonGradle) /\ commonGradle.quote = "\""

\* C7 as amended: the two-part version is changed so on minor and major when
\* at least one build.gradle is found and the versionName line is in double
\* quotes; in every other case common.gradle is left as it is.
C7_TwoPartBumpedWhenRewritable ==
    [][\A t \in {"none", "patch", "minor", "major"} :
          UpdateRanWith(t) =>
              IF Rewritable /\ t \in {"minor", "major"}
              THEN /\ HoldsVersion(commonGradle')
                   /\ commonGradle'.quote = "\""
                   /\ TwoPart(commonGradle') = BumpedTwoPart(TwoPart(commonGradle), t)
              ELSE commonGradle' = commonGradle]_vars

C7_Witness ==
    /\ argv = [script |-> "update-versions.py", args |-> <<"src", "major">>]
    /\ Len(updateLog) = 1
    /\ HoldsVersion(updateLog[1].gradle)
    /\ updateLog[1].gradle.quote = "\""
    /\ TwoPart(updateLog[1].gradle) = <<1, 9>>
    /\ TwoPart(commonGradle) = <<2, 0>>

---------------------------------------------------------------------------
(* Properties of the rendered changelog, checked under SpecChangelog *)

Rendered == argv.script = "generate-changelog.py"

\* the commits of the range that the classifier marks as breaking
BreakingHashes ==
    { gitLog[i].hash : i \in { k \in 1..Len(gitLog) :
        LET parsed == parse_conventional_commit(gitLog[k].message)
        IN  parsed.matched /\ parsed.breaking } }

IsCategoryHeader(line) == line.kind = "header" /\ line.section # "breaking"

\* C9: every breaking commit has its entry in the leading Breaking Changes
\* section, that section precedes every category section, and no breaking
\* commit has an entry inside a category section.
C9_BreakingFirst ==
    Rendered =>
        /\ \A h \in BreakingHashes :
              \E i \in 1..Len(changelog) :
                  changelog[i].kind = "breaking" /\ changelog[i].hash = h
        /\ \A i \in 1..Len(changelog) :
              changelog[i].kind = "breaking" =>
                  /\ changelog[i].hash \in BreakingHashes
                  /\ changelog[1] = HeaderLine("breaking")
                  /\ \A j \in 2..i : changelog[j].kind \in {"blank", "breaking"}
        /\ \A i \in 1..Len(changelog) :
              changelog[i].kind = "entry" =>
                  /\ changelog[i].hash \notin BreakingHashes
                  /\ \E j \in 1..i : IsCategoryHeader(changelog[j])

C9_Witness ==
    /\ Rendered
    /\ Len(gitLog) = 3
    /\ gitLog[1].message = ConventionalMessage("feat", "", FALSE)
    /\ gitLog[2].message = ConventionalMessage("fix", "", TRUE)
    /\ gitLog[3].message = ConventionalMessage("fix", "", FALSE)
    /\ changelog[1] = HeaderLine("breaking")
    /\ changelog[3].kind = "breaking" /\ changelog[3].hash = 2
    /\ \E i \in 4..Len(changelog) : changelog[i].kind = "entry" /\ changelog[i].hash = 1
    /\ \E i \in 4..Len(changelog) : changelog[i].kind = "entry" /\ changelog[i].hash = 3

PriorityOf(section) == CHOOSE k \in 1..Len(TypeOrder) : TypeOrder[k] = section

CategoryHeadersInOrder ==
    \A i, j \in 1..Len(changelog) :
        (i < j /\ IsCategoryHeader(changelog[i]) /\ IsCategoryHeader(changelog[j]))
        => PriorityOf(changelog[i].section) < PriorityOf(changelog[j].section)

\* a category header is followed, after its blank line, by an entry
HeaderHasEntry(i) ==
    i + 2 <= Len(changelog) /\ changelog[i + 2].kind = "entry"

\* C10: the category sections come in the fixed priority order, and no
\* category header is written without at least one entry line under it.
C10_OrderedNoEmptySection ==
    Rendered =>
        /\ CategoryHeadersInOrder
        /\ \A i \in 1..Len(changelog) : IsCategoryHeader(changelog[i]) => HeaderHasEntry(i)

\* the lines that stand for a commit
IsCommitLine(line) == line.kind \in {"breaking", "entry"}

\* two commit lines of one section: no header stands between them
SameSection(i, j) ==
    /\ changelog[i].kind = changelog[j].kind
    /\ \A k \in i..j : changelog[k].kind # "header"

\* the place of a commit in the input sequence
PlaceOf(hash) == CHOOSE k \in 1..Len(gitLog) : gitLog[k].hash = hash

InCommitOrder(i, j) == PlaceOf(changelog[i].hash) < PlaceOf(changelog[j].hash)

\* C11: inside every section, the Breaking Changes section included, the
\* entries stand in the relative order their commits have in the input
\* sequence.
C11_SectionsKeepCommitOrder ==
    Rendered =>
        \A i, j \in 1..Len(changelog) :
            (/\ i < j
             /\ IsCommitLine(changelog[i]) /\ IsCommitLine(changelog[j])
             /\ SameSection(i, j))
            => InCommitOrder(i, j)

\* the category sections alone do keep the order of the input sequence
CategorySectionsKeepCommitOrder ==
    Rendered =>
        \A i, j \in 1..Len(changelog) :
            (/\ i < j
             /\ changelog[i].kind = "entry" /\ changelog[j].kind = "entry"
             /\ SameSection(i, j))
            => InCommitOrder(i, j)

\* the lines of the changelog that stand for the commit with this hash
LinesOf(hash) ==
    { i \in 1..Len(changelog) : IsCommitLine(changelog[i]) /\ changelog[i].hash = hash }

\* C12: for a non-empty commit range, every commit has exactly one line in
\* the rendered changelog, whatever its message, type token and breaking flag.
C12_ExactlyOneLinePerCommit ==
    (Rendered /\ gitLog # <<>>) =>
        \A k \in 1..Len(gitLog) : Cardinality(LinesOf(gitLog[k].hash)) = 1

\* the commits whose type token is none of the fixed list and are not breaking
Unlisted(commit) ==
    LET c == ClassifyCommit(commit)
    IN  ~c.entry.breaking /\ \A n \in 1..Len(TypeOrder) : TypeOrder[n] # c.key

\* no commit has two lines, and only the unlisted ones have none
OneLineUnlessUnlisted ==
    (Rendered /\ gitLog # <<>>) =>
        \A k \in 1..Len(gitLog) :
            Cardinality(LinesOf(gitLog[k].hash)) = (IF Unlisted(gitLog[k]) THEN 0 ELSE 1)

---------------------------------------------------------------------------
(* Releases: the counter update, then version resolution with the same    *)
(* bump class, one release after the other                                *)

\* no tag at all, HEAD off a tag, HEAD on a tag, a tag that is not a version
ReleaseTagStates ==
    { <<None, None>>,
      <<None, <<"v", "1", ".", "1", ".", "1">> >>,
      << <<"v", "0", "9", ".", "0", "9", ".", "0", "9">>,
         <<"v", "0", "9", ".", "0", "9", ".", "0", "9">> >>,
      <<None, <<"1", ".", "1">> >> }

InitRelease ==
    /\ \E ts \in ReleaseTagStates : currentTag = ts[1] /\ latestTag = ts[2]
    /\ buildFiles \in FileSets
    /\ commonGradle \in CommonGradles
    /\ InitOutputs
    /\ InitChangelogIdle

\* python update-versions.py src $TYPE, the first step of a release
ReleaseUpdate(update_type) ==
    /\ argv.script # "update-versions.py"
    /\ Len(resolvedTags) < MaxUpdates
    /\ UpdateVersions(<<"src", update_type>>)

\* python manage-release.py $TYPE, the second step, with the bump class of the
\* first
ReleaseResolve ==
    /\ argv.script = "update-versions.py"
    /\ ResolveVersion(<<argv.args[2]>>)
    /\ resolvedTags' = Append(resolvedTags, stdout')

NextRelease ==
    \/ \E t \in BumpClasses : ReleaseUpdate(t)
    \/ ReleaseResolve

SpecRelease == InitRelease /\ [][NextRelease]_vars

\* the releases the claim is about: a tag exists, a descriptor holds a
\* counter, common.gradle holds a version pattern
ReleasesHaveVersion ==
    /\ latestTag # None
    /\ \E i \in 1..Len(buildFiles) : HasCounter(buildFiles[i])
    /\ HoldsVersion(commonGradle)

\* C13: when a tag exists, a descriptor holds a counter and common.gradle
\* holds a version pattern, every release resolves a version strictly greater
\* (triple order) than the version the release before it resolved, so no two
\* releases resolve the same tag.
C13_ReleasesStrictlyIncrease ==
    ReleasesHaveVersion =>
        /\ \A k \in 1..Len(resolvedTags) : ThreeIntegerComponents(resolvedTags[k])
        /\ \A k \in 1..(Len(resolvedTags) - 1) :
              VersionLess(TripleOf(resolvedTags[k]), TripleOf(resolvedTags[k + 1]))
        /\ \A j, k \in 1..Len(resolvedTags) :
              j # k => resolvedTags[j] # resolvedTags[k]

C13_Witness ==
    /\ ReleasesHaveVersion
    /\ currentTag = <<"v", "0", "9", ".", "0", "9", ".", "0", "9">>
    /\ Len(updateLog) = 2
    /\ updateLog[1].update_type = "minor"
    /\ updateLog[2].update_type = "major"
    /\ updateLog[1].files = << <<5, 7>>, <<>> >>
    /\ updateLog[1].gradle.quote = "\""
    /\ TwoPart(updateLog[1].gradle) = <<9, 9>>
    /\ resolvedTags = << <<"v", "9", ".", "1", "0", ".", "6">>,
                         <<"v", "1", "0", ".", "0", ".", "7">> >>

====
